---- MODULE Spec2Model ----
(***************************************************************************)
(* Model of the voice2text session coordinator: the useVoiceToText hook,   *)
(* the DeepgramService WebSocket client, the AudioCaptureService recorder  *)
(* wrapper and the push-to-talk handlers of App.tsx.                       *)
(*                                                                         *)
(* JavaScript runs every callback to completion on one event loop, so each *)
(* action below is one callback (a user action, a promise continuation, a  *)
(* socket event) together with the React render and effects it causes.     *)
(* Objects created with `new` live in bounded tables; a slot is reused     *)
(* once its object is unreachable (no ref points to it and no event can    *)
(* fire on it), which is what the garbage collector does.                  *)
(***************************************************************************)
EXTENDS Integers, Sequences, FiniteSets, TLC

\* ------------------------------------------------------------------ bounds
MaxServices == 1
MaxSockets == 2
MaxAudio == 1
MaxRecorders == 2
MaxFinals == 2
MaxChunks == 2

ServiceIds == 1..MaxServices
SocketIds == 1..MaxSockets
AudioIds == 1..MaxAudio
RecorderIds == 1..MaxRecorders
ChunkIds == 1..MaxChunks

\* ------------------------------------------------------------- data values
\* string | null  and  PermissionState | null : <<>> is null, <<x>> is x.
None == <<>>
Some(x) == <<x>>

\* Text shown to the user is a sequence of characters.
Space == <<" ">>
Fragments == {<<"h", "i">>, <<"y", "o">>}

\* The API key typed by the user: empty, a well-formed token, or a string
\* that is not a valid WebSocket subprotocol token (it contains a space).
ApiKeys == {"", "key", "bad key"}
Truthy(k) == k # ""
ValidSubprotocol(k) == k = "key"

\* What navigator.permissions.query reports before the prompt is answered.
PermissionStates == {"granted", "denied", "prompt"}

\* checkMediaDevicesSupport: the environment has media devices, or lacks them.
SupportOutcomes == {"ok", "noMediaDevices", "noGetUserMedia"}

\* getUserMedia: a stream, a DOMException by name, or a thrown non-Error.
MediaOutcomes ==
    {"ok", "NotAllowedError", "NotFoundError", "NotReadableError",
     "OtherDOMException", "nonError"}

\* Inbound frames (event.data of a message event).
Frames ==
    [kind : {"Results"}, alts : {1}, transcript : Fragments \cup {<<>>},
     isFinal : BOOLEAN, message : {""}]
    \cup [kind : {"Results"}, alts : {0}, transcript : {<<>>},
          isFinal : {FALSE}, message : {""}]
    \cup [kind : {"Error"}, alts : {0}, transcript : {<<>>},
          isFinal : {FALSE}, message : {"", "quota"}]
    \cup [kind : {"Metadata", "Malformed"}, alts : {0}, transcript : {<<>>},
          isFinal : {FALSE}, message : {""}]

LeanFrames ==
    {f \in Frames :
        \/ f.kind = "Results" /\ f.transcript = <<"h", "i">>
        \/ f.kind = "Error" /\ f.message = "quota"}

\* The server reporting a fault.
FaultFrames == {f \in Frames : f.kind = "Error" /\ f.message = "quota"}

\* --------------------------------------------------------------- variables
VARIABLES
    apiKey,               \* App.tsx: the apiKey state passed to the hook
    state,                \* useVoiceToText: VoiceToTextState
    audioServiceRef,      \* useVoiceToText: audioServiceRef.current (0 = null)
    deepgramServiceRef,   \* useVoiceToText: deepgramServiceRef.current (0 = null)
    services,             \* DeepgramService objects
    sockets,              \* WebSocket objects
    audios,               \* AudioCaptureService objects
    recorders,            \* MediaRecorder objects
    initializing,         \* the initialize() call in flight, if any
    pressed,              \* the record button is held down
    finals,               \* final fragments delivered since the last clear
    last,                 \* the tracked callback that produced this state
    invoked,              \* the channel handlers the last callback invoked
    wire,                 \* the socket calls (send, close) the last callback made
    unmounted,            \* the component using the hook was unmounted
    clipboard,            \* the text on the system clipboard
    emitted,              \* how many audio chunks the recorders emitted so far
    reads,                \* the blob.arrayBuffer() reads sendAudio is waiting for,
                          \* each with the socket that was open when it started
    sent                  \* the audio chunks transmitted so far, in order

vars == <<apiKey, state, audioServiceRef, deepgramServiceRef, services,
          sockets, audios, recorders, initializing, pressed, finals, last,
          invoked, wire, unmounted, clipboard, emitted, reads, sent>>

InitialState ==
    [isRecording |-> FALSE, isConnected |-> FALSE, isInitialized |-> FALSE,
     transcript |-> <<>>, interimTranscript |-> <<>>, error |-> None,
     permissionStatus |-> None]

NoService == [apiKey |-> "", socket |-> 0, handlers |-> FALSE, isConnected |-> FALSE]
NoSocket == [readyState |-> "NONE", owner |-> 0, failed |-> FALSE]
NoAudio == [mediaStream |-> FALSE, mediaRecorder |-> 0, onDataCallback |-> FALSE]
NoRecorder == [state |-> "none", owner |-> 0]
NotInitializing == [pc |-> "idle", apiKey |-> ""]

\* The heap and the React state as one value, so that a callback that calls
\* other callbacks is the composition of their effects.
World ==
    [state |-> state, audioServiceRef |-> audioServiceRef,
     deepgramServiceRef |-> deepgramServiceRef, services |-> services,
     sockets |-> sockets, audios |-> audios, recorders |-> recorders,
     overflow |-> FALSE, invoked |-> <<>>, wire |-> <<>>,
     clipboard |-> clipboard, reads |-> reads, sent |-> sent]

\* setState: React drops the update once the component is unmounted.
SetState(w, s) == IF unmounted THEN w ELSE [w EXCEPT !.state = s]

\* A call of one of the DeepgramEventHandler functions, with its argument.
Call(handler, transcript, isFinal, message) ==
    [handler |-> handler, transcript |-> transcript, isFinal |-> isFinal,
     message |-> message]

Invoke(w, call) == [w EXCEPT !.invoked = Append(@, call)]

\* A call of socket.send or socket.close.
SendControl(s, type) == [op |-> "send", socket |-> s, control |-> type, chunk |-> 0]
SendChunk(s, c) == [op |-> "send", socket |-> s, control |-> "", chunk |-> c]
CloseSocket(s) == [op |-> "close", socket |-> s, control |-> "", chunk |-> 0]

OnWire(w, call) == [w EXCEPT !.wire = Append(@, call)]

\* ------------------------------------------------------ object lifetimes
Min(S) == CHOOSE x \in S : \A y \in S : x <= y

ActiveSocket(w, s) == w.sockets[s].readyState \in {"CONNECTING", "OPEN", "CLOSING"}

\* A service is reachable through the hook's ref, through a socket that can
\* still fire an event (its handlers close over `this`), or through a pending
\* read started by its sendAudio.
ServiceLive(w, d) ==
    \/ d = w.deepgramServiceRef
    \/ \E s \in SocketIds : ActiveSocket(w, s) /\ w.sockets[s].owner = d
    \/ \E rd \in w.reads : rd.service = d

SocketLive(w, s) ==
    \/ ActiveSocket(w, s)
    \/ \E d \in ServiceIds : ServiceLive(w, d) /\ w.services[d].socket = s

RecorderRunning(w, r) == w.recorders[r].state = "recording"

AudioLive(w, a) ==
    \/ a = w.audioServiceRef
    \/ \E r \in RecorderIds : RecorderRunning(w, r) /\ w.recorders[r].owner = a

RecorderLive(w, r) ==
    \/ RecorderRunning(w, r)
    \/ \E a \in AudioIds : AudioLive(w, a) /\ w.audios[a].mediaRecorder = r

\* Unreachable objects are dropped.
Collect(w) ==
    [w EXCEPT
       !.services = [d \in ServiceIds |->
                       IF ServiceLive(w, d) THEN w.services[d] ELSE NoService],
       !.sockets = [s \in SocketIds |->
                      IF SocketLive(w, s) THEN w.sockets[s] ELSE NoSocket],
       !.audios = [a \in AudioIds |->
                     IF AudioLive(w, a) THEN w.audios[a] ELSE NoAudio],
       !.recorders = [r \in RecorderIds |->
                        IF RecorderLive(w, r) THEN w.recorders[r] ELSE NoRecorder]]

\* ------------------------------------------------- AudioCaptureService
\* audioCapture.ts handlePermissionError (and checkMediaDevicesSupport, whose
\* Error passes through it unchanged): the message of the Error that
\* initialize() rejects with.
HandlePermissionError(outcome) ==
    CASE outcome = "noMediaDevices" ->
           "Media devices not supported. This may be a permissions issue on macOS. Please ensure microphone access is granted in System Preferences > Security & Privacy > Privacy > Microphone."
      [] outcome = "noGetUserMedia" ->
           "getUserMedia not supported in this environment."
      [] outcome = "NotAllowedError" ->
           "Microphone permission denied. Please allow microphone access in your system settings."
      [] outcome = "NotFoundError" ->
           "No microphone found. Please connect a microphone and try again."
      [] outcome = "NotReadableError" ->
           "Microphone is in use by another application. Please close other apps using the microphone."
      [] outcome = "OtherDOMException" ->
           "Microphone error: aborted"
      [] OTHER ->
           "Unknown audio capture error"

\* new MediaRecorder(this.mediaStream) assigned to a.mediaRecorder: a slot
\* whose recorder is not running and that no other reachable object holds.
NewRecorderSlots(w, a) ==
    {r \in RecorderIds :
        /\ ~RecorderRunning(w, r)
        /\ \A b \in AudioIds \ {a} :
              AudioLive(w, b) => w.audios[b].mediaRecorder # r}

\* audioCapture.ts startRecording: [w, threw].
AudioStartRecording(w, a, recorderOk) ==
    IF ~w.audios[a].mediaStream
    THEN [w |-> w, threw |-> TRUE]
    ELSE LET w1 == [w EXCEPT !.audios[a].onDataCallback = TRUE]
         IN IF ~recorderOk
            THEN [w |-> w1, threw |-> TRUE]
            ELSE IF NewRecorderSlots(w1, a) = {}
            THEN [w |-> [w1 EXCEPT !.overflow = TRUE], threw |-> FALSE]
            ELSE LET r == Min(NewRecorderSlots(w1, a))
                 IN [w |-> [w1 EXCEPT
                              !.audios[a].mediaRecorder = r,
                              !.recorders[r] = [state |-> "recording", owner |-> a]],
                     threw |-> FALSE]

\* audioCapture.ts stopRecording (the returned blob is ignored by the hook).
AudioStopRecording(w, a) ==
    LET r == w.audios[a].mediaRecorder
    IN IF r # 0 /\ w.recorders[r].state # "inactive"
       THEN [w EXCEPT !.recorders[r].state = "inactive"]
       ELSE w

\* audioCapture.ts dispose: stopRecording(), then every track of the stream is
\* stopped and the stream dropped.  A MediaRecorder whose stream has no live
\* track left stops recording, so every recorder on this stream ends.
AudioDispose(w, a) ==
    LET w1 == AudioStopRecording(w, a)
    IN IF w1.audios[a].mediaStream
       THEN [w1 EXCEPT
               !.audios[a].mediaStream = FALSE,
               !.recorders = [r \in RecorderIds |->
                   IF w1.recorders[r].owner = a /\ w1.recorders[r].state = "recording"
                   THEN [w1.recorders[r] EXCEPT !.state = "inactive"]
                   ELSE w1.recorders[r]]]
       ELSE w1

\* audioCapture.ts isRecording
AudioIsRecording(w, a) ==
    /\ w.audios[a].mediaRecorder # 0
    /\ w.recorders[w.audios[a].mediaRecorder].state = "recording"

\* ------------------------------------- useVoiceToText: channel handlers
\* The four handlers startRecording passes to connect().  They close over
\* setState and the two refs only, so every connect() installs the same ones.

\* onTranscript without the `prev.transcript ?` test: the separator is added
\* even to an empty transcript.
OnTranscriptAlwaysSeparates(w0, result) ==
    LET w == Invoke(w0, Call("onTranscript", result.transcript, result.isFinal, ""))
    IN IF result.isFinal
       THEN SetState(w, [w.state EXCEPT
                !.transcript = w.state.transcript \o Space \o result.transcript,
                !.interimTranscript = <<>>])
       ELSE SetState(w, [w.state EXCEPT !.interimTranscript = result.transcript])

\* onTranscript whose final branch does not reset interimTranscript.
OnTranscriptKeepsInterim(w0, result) ==
    LET w == Invoke(w0, Call("onTranscript", result.transcript, result.isFinal, ""))
    IN IF result.isFinal
       THEN SetState(w, [w.state EXCEPT
                !.transcript = IF w.state.transcript # <<>>
                               THEN w.state.transcript \o Space \o result.transcript
                               ELSE result.transcript])
       ELSE SetState(w, [w.state EXCEPT !.interimTranscript = result.transcript])

\* onTranscript (part_002 247-267); result = [transcript, isFinal].
OnTranscript(w0, result) ==
    LET w == Invoke(w0, Call("onTranscript", result.transcript, result.isFinal, ""))
    IN IF result.isFinal
       THEN SetState(w, [w.state EXCEPT
                !.transcript = IF w.state.transcript # <<>>
                               THEN w.state.transcript \o Space \o result.transcript
                               ELSE result.transcript,
                !.interimTranscript = <<>>])
       ELSE SetState(w, [w.state EXCEPT !.interimTranscript = result.transcript])

\* onError that records the message but leaves the flags as they were.
OnErrorKeepsFlags(w0, message) ==
    LET w == Invoke(w0, Call("onError", <<>>, FALSE, message))
    IN SetState(w, [w.state EXCEPT !.error = Some(message)])

\* onError (part_002 268-275)
OnError(w0, message) ==
    LET w == Invoke(w0, Call("onError", <<>>, FALSE, message))
    IN SetState(w, [w.state EXCEPT
           !.error = Some(message), !.isRecording = FALSE, !.isConnected = FALSE])

\* onClose that reports the close as an error, as onError does.
OnCloseAsFault(w0) ==
    LET w == Invoke(w0, Call("onClose", <<>>, FALSE, ""))
    IN SetState(w, [w.state EXCEPT
           !.error = Some("Connection closed"),
           !.isConnected = FALSE, !.isRecording = FALSE])

\* onClose (part_002 276-282)
OnClose(w0) ==
    LET w == Invoke(w0, Call("onClose", <<>>, FALSE, ""))
    IN SetState(w, [w.state EXCEPT !.isConnected = FALSE, !.isRecording = FALSE])

\* onOpen (part_002 237-246).  An exception thrown by startRecording leaves
\* the handler before the second setState.
OnOpen(w0, recorderOk) ==
    LET w == Invoke(w0, Call("onOpen", <<>>, FALSE, ""))
        w1 == SetState(w, [w.state EXCEPT !.isConnected = TRUE])
        started == AudioStartRecording(w1, w1.audioServiceRef, recorderOk)
    IN IF w1.audioServiceRef = 0
       THEN SetState(w1, [w1.state EXCEPT !.isRecording = TRUE])
       ELSE IF started.threw
       THEN started.w
       ELSE SetState(started.w, [started.w.state EXCEPT !.isRecording = TRUE])

\* ------------------------------------------------------- DeepgramService
WebSocketConnectionError == "WebSocket connection error"
WebSocketSyntaxError == "Failed to construct 'WebSocket': The subprotocol is invalid."
DeepgramError == "Deepgram error"

\* new DeepgramService({ apiKey }) assigned to deepgramServiceRef.current
\* (part_002 197 and 331): the object the ref held before becomes
\* unreachable unless one of its sockets can still fire.
NewServiceSlots(w) ==
    {d \in ServiceIds :
        /\ \A s \in SocketIds : ActiveSocket(w, s) => w.sockets[s].owner # d
        /\ \A rd \in w.reads : rd.service # d}

NewDeepgramService(w, key) ==
    IF NewServiceSlots(w) = {}
    THEN [w EXCEPT !.overflow = TRUE]
    ELSE LET d == Min(NewServiceSlots(w))
         IN [w EXCEPT
               !.services[d] = [apiKey |-> key, socket |-> 0,
                                handlers |-> FALSE, isConnected |-> FALSE],
               !.deepgramServiceRef = d]

\* new WebSocket(...) assigned to d.socket.
NewSocketSlots(w, d) ==
    {s \in SocketIds :
        /\ ~ActiveSocket(w, s)
        /\ \A e \in ServiceIds \ {d} :
              ServiceLive(w, e) => w.services[e].socket # s}

\* connect (part_000 52-98).  The WebSocket constructor throws a SyntaxError
\* when a requested subprotocol is not a valid token.
Connect(w, d) ==
    IF w.services[d].isConnected
    THEN w
    ELSE LET w1 == [w EXCEPT !.services[d].handlers = TRUE]
         IN IF ~ValidSubprotocol(w1.services[d].apiKey)
            THEN OnError(w1, WebSocketSyntaxError)
            ELSE IF NewSocketSlots(w1, d) = {}
            THEN [w1 EXCEPT !.overflow = TRUE]
            ELSE LET s == Min(NewSocketSlots(w1, d))
                 IN [w1 EXCEPT
                       !.sockets[s] = [readyState |-> "CONNECTING",
                                       owner |-> d, failed |-> FALSE],
                       !.services[d].socket = s]

\* WebSocket.close(): a socket that is still connecting fails its
\* connection, which is reported later by an error and a close event.
SocketCloseCall(sock) ==
    CASE sock.readyState = "CONNECTING" ->
           [sock EXCEPT !.readyState = "CLOSING", !.failed = TRUE]
      [] sock.readyState = "OPEN" ->
           [sock EXCEPT !.readyState = "CLOSING"]
      [] OTHER -> sock

\* disconnect that closes the socket but keeps holding it.
DisconnectKeepsSocket(w, d) ==
    LET s == w.services[d].socket
        w1 == IF s # 0 /\ w.sockets[s].readyState = "OPEN"
              THEN OnWire(w, SendControl(s, "CloseStream"))
              ELSE w
    IN IF s # 0
       THEN [OnWire(w1, CloseSocket(s)) EXCEPT
                !.sockets[s] = SocketCloseCall(w.sockets[s]),
                !.services[d].isConnected = FALSE]
       ELSE [w EXCEPT !.services[d].isConnected = FALSE]

\* disconnect that also reports the close to the handlers itself.
DisconnectNotifiesClose(w, d) ==
    LET s == w.services[d].socket
        w1 == IF s # 0 /\ w.sockets[s].readyState = "OPEN"
              THEN OnWire(w, SendControl(s, "CloseStream"))
              ELSE w
    IN IF s # 0
       THEN OnClose([OnWire(w1, CloseSocket(s)) EXCEPT
                !.sockets[s] = SocketCloseCall(w.sockets[s]),
                !.services[d].socket = 0,
                !.services[d].isConnected = FALSE])
       ELSE [w EXCEPT !.services[d].isConnected = FALSE]

\* disconnect (part_000 123-133)
Disconnect(w, d) ==
    LET s == w.services[d].socket
        w1 == IF s # 0 /\ w.sockets[s].readyState = "OPEN"
              THEN OnWire(w, SendControl(s, "CloseStream"))
              ELSE w
    IN IF s # 0
       THEN [OnWire(w1, CloseSocket(s)) EXCEPT
                !.sockets[s] = SocketCloseCall(w.sockets[s]),
                !.services[d].socket = 0,
                !.services[d].isConnected = FALSE]
       ELSE [w EXCEPT !.services[d].isConnected = FALSE]

\* sendAudio with a Blob (part_000 103-113): the chunk is dropped unless the
\* socket is open; otherwise its bytes are read asynchronously.
SendAudio(w, d, c) ==
    IF w.services[d].socket = 0
       \/ w.sockets[w.services[d].socket].readyState # "OPEN"
    THEN w
    ELSE [w EXCEPT !.reads = @ \cup {[chunk |-> c, service |-> d,
                                      socket |-> w.services[d].socket]}]

\* The continuation of audioData.arrayBuffer() (part_000 111-113):
\* this.socket?.send(buffer) on whatever this.socket is by then.  send()
\* throws on a CONNECTING socket and discards the data on a closing or closed
\* one; only an open socket transmits it.
SendBuffer(w, d, c) ==
    LET s == w.services[d].socket
        w1 == [w EXCEPT !.reads = {rd \in @ : rd.chunk # c \/ rd.service # d}]
    IN IF s = 0
       THEN w1
       ELSE IF w1.sockets[s].readyState = "OPEN"
       THEN [OnWire(w1, SendChunk(s, c)) EXCEPT !.sent = Append(@, c)]
       ELSE OnWire(w1, SendChunk(s, c))

\* isReady (part_000 138-140)
IsReady(w, d) ==
    /\ w.services[d].isConnected
    /\ w.services[d].socket # 0
    /\ w.sockets[w.services[d].socket].readyState = "OPEN"

\* handleMessage that forwards results whose transcript is empty.
HandleMessageForwardsEmpty(w, d, frame) ==
    IF frame.kind = "Malformed"
    THEN w
    ELSE LET w1 == IF /\ frame.kind = "Results"
                      /\ frame.alts > 0
                      /\ w.services[d].handlers
                   THEN OnTranscript(w, [transcript |-> frame.transcript,
                                         isFinal |-> frame.isFinal])
                   ELSE w
         IN IF frame.kind = "Error" /\ w1.services[d].handlers
            THEN OnError(w1, IF frame.message # "" THEN frame.message
                             ELSE DeepgramError)
            ELSE w1

\* handleMessage (part_000 145-171)
HandleMessage(w, d, frame) ==
    IF frame.kind = "Malformed"
    THEN w
    ELSE LET w1 == IF /\ frame.kind = "Results"
                      /\ frame.alts > 0
                      /\ frame.transcript # <<>>
                      /\ w.services[d].handlers
                   THEN OnTranscript(w, [transcript |-> frame.transcript,
                                         isFinal |-> frame.isFinal])
                   ELSE w
         IN IF frame.kind = "Error" /\ w1.services[d].handlers
            THEN OnError(w1, IF frame.message # "" THEN frame.message
                             ELSE DeepgramError)
            ELSE w1

\* socket.onopen (part_000 74-78)
SocketOnOpen(w, s, recorderOk) ==
    LET d == w.sockets[s].owner
        w1 == [w EXCEPT !.services[d].isConnected = TRUE]
    IN IF w1.services[d].handlers THEN OnOpen(w1, recorderOk) ELSE w1

\* socket.onerror that only logs the event.
SocketOnErrorOnlyLogs(w, s) == w

\* socket.onerror (part_000 84-87)
SocketOnError(w, s) ==
    IF w.services[w.sockets[s].owner].handlers
    THEN OnError(w, WebSocketConnectionError)
    ELSE w

\* socket.onclose (part_000 89-93)
SocketOnClose(w, s) ==
    LET d == w.sockets[s].owner
        w1 == [w EXCEPT !.services[d].isConnected = FALSE]
    IN IF w1.services[d].handlers THEN OnClose(w1) ELSE w1

\* --------------------------------------------- useVoiceToText: actions
ServicesNotInitialized == "Services not initialized. Please initialize first."
ApiKeyRequired == "Deepgram API key is required."

\* new AudioCaptureService() assigned to audioServiceRef.current
\* (part_002 191-193), after its initialize() resolved.
NewAudioSlots(w) ==
    {a \in AudioIds :
        \A r \in RecorderIds : RecorderRunning(w, r) => w.recorders[r].owner # a}

NewAudioService(w) ==
    IF NewAudioSlots(w) = {}
    THEN [w EXCEPT !.overflow = TRUE]
    ELSE LET a == Min(NewAudioSlots(w))
         IN [w EXCEPT
               !.audios[a] = [mediaStream |-> TRUE, mediaRecorder |-> 0,
                              onDataCallback |-> FALSE],
               !.audioServiceRef = a]

\* initialize, after audioService.initialize() resolved (part_002 193-204);
\* key is the apiKey the callback closed over.
InitializeResolved(w, key) ==
    LET w1 == NewAudioService(w)
        w2 == IF Truthy(key) THEN NewDeepgramService(w1, key) ELSE w1
    IN SetState(w2, [w2.state EXCEPT
           !.isInitialized = TRUE, !.permissionStatus = Some("granted")])

\* initialize's catch block always using its fallback message.
InitializeRejectedWithFallback(w, message) ==
    SetState(w, [w.state EXCEPT
        !.error = Some("Failed to initialize"), !.isInitialized = FALSE])

\* initialize, catch block (part_002 205-212)
InitializeRejected(w, message) ==
    SetState(w, [w.state EXCEPT !.error = Some(message), !.isInitialized = FALSE])

\* startRecording (part_002 216-284); key is the apiKey of the current render.
StartRecordingCall(w, key) ==
    IF w.audioServiceRef = 0 \/ w.deepgramServiceRef = 0
    THEN SetState(w, [w.state EXCEPT !.error = Some(ServicesNotInitialized)])
    ELSE IF ~Truthy(key)
    THEN SetState(w, [w.state EXCEPT !.error = Some(ApiKeyRequired)])
    ELSE Connect(SetState(w, [w.state EXCEPT
                     !.error = None, !.interimTranscript = <<>>]),
                 w.deepgramServiceRef)

\* stopRecording that also resets error, as startRecording does.
StopRecordingCallResetsError(w) ==
    LET w1 == IF w.audioServiceRef # 0
              THEN AudioStopRecording(w, w.audioServiceRef) ELSE w
        w2 == IF w1.deepgramServiceRef # 0
              THEN Disconnect(w1, w1.deepgramServiceRef) ELSE w1
    IN SetState(w2, [w2.state EXCEPT
           !.isRecording = FALSE, !.isConnected = FALSE,
           !.interimTranscript = <<>>, !.error = None])

\* stopRecording (part_002 287-297)
StopRecordingCall(w) ==
    LET w1 == IF w.audioServiceRef # 0
              THEN AudioStopRecording(w, w.audioServiceRef) ELSE w
        w2 == IF w1.deepgramServiceRef # 0
              THEN Disconnect(w1, w1.deepgramServiceRef) ELSE w1
    IN SetState(w2, [w2.state EXCEPT
           !.isRecording = FALSE, !.isConnected = FALSE,
           !.interimTranscript = <<>>])

\* clearTranscript (part_002 300-306)
ClearTranscriptCall(w) ==
    SetState(w, [w.state EXCEPT !.transcript = <<>>, !.interimTranscript = <<>>])

CopyFailed == "Failed to copy to clipboard"

\* copyToClipboard (part_002 309-318).  text is state.transcript as the
\* callback captured it at the render that created it; written tells whether
\* navigator.clipboard.writeText resolved.
CopyToClipboardCall(w, text, written) ==
    IF written
    THEN [w EXCEPT !.clipboard = text]
    ELSE SetState(w, [w.state EXCEPT !.error = Some(CopyFailed)])

\* The effect on [apiKey, state.isInitialized] (part_002 329-333).
ApiKeyEffect(w, key) ==
    IF Truthy(key) /\ w.state.isInitialized
    THEN NewDeepgramService(w, key)
    ELSE w

\* The render that follows a callback: React runs the effect when one of its
\* dependencies differs from the previous render.
Render(w, key) ==
    IF key # apiKey \/ w.state.isInitialized # state.isInitialized
    THEN ApiKeyEffect(w, key)
    ELSE w

\* What kind of call startRecording turned out to be.
StartRecordingResult(w, key) ==
    CASE w.audioServiceRef = 0 \/ w.deepgramServiceRef = 0 -> "notInitialized"
      [] ~Truthy(key) -> "noKey"
      [] w.services[w.deepgramServiceRef].isConnected -> "alreadyConnected"
      [] ~ValidSubprotocol(w.services[w.deepgramServiceRef].apiKey) -> "threw"
      [] OTHER -> "connecting"

\* A callback ends: render, run effects, publish the new state.
Commit(w, key) ==
    \E w0 \in {Render(w, key)} : \E w1 \in {Collect(w0)} :
       /\ ~w1.overflow
       /\ apiKey' = key
       /\ state' = w1.state
       /\ audioServiceRef' = w1.audioServiceRef
       /\ deepgramServiceRef' = w1.deepgramServiceRef
       /\ services' = w1.services
       /\ sockets' = w1.sockets
       /\ audios' = w1.audios
       /\ recorders' = w1.recorders
       /\ invoked' = w1.invoked
       /\ wire' = w1.wire
       /\ clipboard' = w1.clipboard
       /\ reads' = w1.reads
       /\ sent' = w1.sent

\* last: what the callback that produced the state was, when it was a failed
\* initialize, a startRecording or stopRecording call, or a socket event that
\* invoked onError, onClose (remote close) or onTranscript (final result);
\* Quiet after any other callback.
Event(op, info) == [op |-> op, info |-> info]
Quiet == Event("", "")

Init ==
    /\ apiKey \in {"", "key"}
    /\ state = InitialState
    /\ audioServiceRef = 0
    /\ deepgramServiceRef = 0
    /\ services = [d \in ServiceIds |-> NoService]
    /\ sockets = [s \in SocketIds |-> NoSocket]
    /\ audios = [a \in AudioIds |-> NoAudio]
    /\ recorders = [r \in RecorderIds |-> NoRecorder]
    /\ initializing = NotInitializing
    /\ pressed = FALSE
    /\ finals = <<>>
    /\ last = Quiet
    /\ invoked = <<>>
    /\ wire = <<>>
    /\ unmounted = FALSE
    /\ clipboard = <<>>
    /\ emitted = 0
    /\ reads = {}
    /\ sent = <<>>

\* initialize() up to its first await (part_002 182-187).  One call is in
\* flight at a time: the next one starts after the previous one settled.
Initialize ==
    /\ ~unmounted
    /\ initializing.pc = "idle"
    /\ Commit(SetState(World, [state EXCEPT !.error = None]), apiKey)
    /\ initializing' = [pc |-> "checkPermission", apiKey |-> apiKey]
    /\ last' = Quiet
    /\ UNCHANGED <<pressed, finals, unmounted, emitted>>

\* checkPermission() resolved (part_002 187-192, audioCapture.ts 38-49 and
\* 168-178): the permission state is stored and audioService.initialize()
\* runs up to getUserMedia, unless the environment lacks media devices.
PermissionChecked(permission, support) ==
    /\ initializing.pc = "checkPermission"
    /\ LET w1 == SetState(World, [state EXCEPT
                     !.permissionStatus = Some(permission)])
       IN IF support = "ok"
          THEN /\ Commit(w1, apiKey)
               /\ initializing' = [initializing EXCEPT !.pc = "getUserMedia"]
               /\ last' = Quiet
          ELSE /\ Commit(InitializeRejected(w1, HandlePermissionError(support)),
                         apiKey)
               /\ initializing' = NotInitializing
               /\ last' = Event("initializeFailed", HandlePermissionError(support))
    /\ UNCHANGED <<pressed, finals, unmounted, emitted>>

\* getUserMedia settled (audioCapture.ts 43-56, part_002 192-212).
GetUserMediaSettled(outcome) ==
    /\ initializing.pc = "getUserMedia"
    /\ IF outcome = "ok"
       THEN /\ Commit(InitializeResolved(World, initializing.apiKey), apiKey)
            /\ last' = Event("initialize", "acquiredStream")
       ELSE /\ Commit(InitializeRejected(World, HandlePermissionError(outcome)),
                      apiKey)
            /\ last' = Event("initializeFailed", HandlePermissionError(outcome))
    /\ initializing' = NotInitializing
    /\ UNCHANGED <<pressed, finals, unmounted, emitted>>

StartRecording ==
    /\ ~unmounted
    /\ Commit(StartRecordingCall(World, apiKey), apiKey)
    /\ last' = Event("startRecording", StartRecordingResult(World, apiKey))
    /\ UNCHANGED <<initializing, pressed, finals, unmounted, emitted>>

StopRecording ==
    /\ ~unmounted
    /\ Commit(StopRecordingCall(World), apiKey)
    /\ last' = Event("stopRecording",
                     IF state.isRecording THEN "recording" ELSE "notRecording")
    /\ UNCHANGED <<initializing, pressed, finals, unmounted, emitted>>

ClearTranscript ==
    /\ ~unmounted
    /\ Commit(ClearTranscriptCall(World), apiKey)
    /\ finals' = <<>>
    /\ last' = Event("clearTranscript", "")
    /\ UNCHANGED <<initializing, pressed, unmounted, emitted>>

\* copyToClipboard called from an event handler of its own: the callback of
\* the current render, which captured the current state.transcript.
CopyToClipboard(written) ==
    /\ ~unmounted
    /\ Commit(CopyToClipboardCall(World, state.transcript, written), apiKey)
    /\ last' = Event("copyToClipboard", IF written THEN "written" ELSE "rejected")
    /\ UNCHANGED <<initializing, pressed, finals, unmounted, emitted>>

\* One event handler of the caller calls actions.clearTranscript() and then
\* actions.copyToClipboard(): both callbacks are those of the current render,
\* and React renders again only after the handler returned.
ClearThenCopy(written) ==
    /\ ~unmounted
    /\ Commit(CopyToClipboardCall(ClearTranscriptCall(World), state.transcript,
                                   written),
              apiKey)
    /\ finals' = <<>>
    /\ last' = Event("clearThenCopy", IF written THEN "written" ELSE "rejected")
    /\ UNCHANGED <<initializing, pressed, unmounted, emitted>>

\* App.tsx 51: ApiKeyInput onChange={setApiKey}
SetApiKey(key) ==
    /\ ~unmounted
    /\ key # apiKey
    /\ Commit(World, key)
    /\ last' = Quiet
    /\ UNCHANGED <<initializing, pressed, finals, unmounted, emitted>>

\* The cleanup of the unmount effect (part_002 321-326).
UnmountCleanup(w) ==
    LET w1 == IF w.audioServiceRef # 0
              THEN AudioDispose(w, w.audioServiceRef) ELSE w
    IN IF w1.deepgramServiceRef # 0
       THEN Disconnect(w1, w1.deepgramServiceRef) ELSE w1

\* The component that uses the hook is unmounted.
Unmount ==
    /\ ~unmounted
    /\ Commit(UnmountCleanup(World), apiKey)
    /\ unmounted' = TRUE
    /\ last' = Event("unmount", "")
    /\ UNCHANGED <<initializing, pressed, finals, emitted>>

\* --------------------------------------------------- MediaRecorder events
\* mediaRecorder.ondataavailable (audioCapture.ts 80-88) for the next chunk of
\* a running recorder; the callback is the one onOpen passed to
\* startRecording (part_002 241-243).
DataAvailable(r, empty) ==
    /\ recorders[r].state = "recording"
    /\ emitted < MaxChunks
    /\ emitted' = emitted + 1
    /\ LET a == recorders[r].owner
       IN IF ~empty /\ audios[a].onDataCallback /\ deepgramServiceRef # 0
          THEN Commit(SendAudio(World, deepgramServiceRef, emitted + 1), apiKey)
          ELSE Commit(World, apiKey)
    /\ last' = Quiet
    /\ UNCHANGED <<initializing, pressed, finals, unmounted>>

\* One of the pending arrayBuffer() promises resolves.  The reads of
\* different blobs are independent: they complete in any order.
BufferRead(rd) ==
    /\ rd \in reads
    /\ Commit(SendBuffer(World, rd.service, rd.chunk), apiKey)
    /\ last' = Quiet
    /\ UNCHANGED <<initializing, pressed, finals, unmounted, emitted>>

\* ----------------------------------------------------- WebSocket events
\* The handshake completed: readyState becomes OPEN and open is fired.
\* recorderOk: whether new MediaRecorder(stream) succeeds in this environment.
SocketOpen(s, recorderOk) ==
    /\ sockets[s].readyState = "CONNECTING"
    /\ Commit(SocketOnOpen([World EXCEPT !.sockets[s].readyState = "OPEN"],
                           s, recorderOk),
              apiKey)
    /\ last' = Quiet
    /\ UNCHANGED <<initializing, pressed, finals, unmounted, emitted>>

\* Which handler handleMessage invokes for a frame.
Delivery(d, frame) ==
    CASE frame.kind = "Results" /\ frame.alts > 0 /\ frame.transcript # <<>>
           /\ services[d].handlers ->
           IF frame.isFinal THEN "final" ELSE "interim"
      [] frame.kind = "Error" /\ services[d].handlers -> "error"
      [] OTHER -> "none"

\* A message event; the browser delivers messages only while OPEN.
SocketMessage(s, frame) ==
    /\ sockets[s].readyState = "OPEN"
    /\ Delivery(sockets[s].owner, frame) = "final" => Len(finals) < MaxFinals
    /\ Commit(HandleMessage(World, sockets[s].owner, frame), apiKey)
    /\ finals' = IF Delivery(sockets[s].owner, frame) = "final"
                 THEN Append(finals, frame.transcript) ELSE finals
    /\ last' = CASE Delivery(sockets[s].owner, frame) = "final" ->
                      Event("onTranscript", "final")
                 [] Delivery(sockets[s].owner, frame) = "error" ->
                      Event("onError", IF frame.message # "" THEN frame.message
                                       ELSE DeepgramError)
                 [] OTHER -> Quiet
    /\ UNCHANGED <<initializing, pressed, unmounted, emitted>>

\* The connection closed cleanly: by the server while OPEN ("remote"), or
\* completing a close() made while OPEN ("local").  Only close is fired.
SocketClose(s) ==
    /\ sockets[s].readyState \in {"OPEN", "CLOSING"}
    /\ ~sockets[s].failed
    /\ Commit(SocketOnClose([World EXCEPT !.sockets[s].readyState = "CLOSED"], s),
              apiKey)
    /\ last' = IF sockets[s].readyState = "OPEN"
               THEN Event("onClose", "remote") ELSE Quiet
    /\ UNCHANGED <<initializing, pressed, finals, unmounted, emitted>>

\* The connection failed (handshake refused, network lost, or close() called
\* before the handshake finished): error and close are fired in one task.
SocketFail(s) ==
    /\ sockets[s].readyState \in {"CONNECTING", "OPEN", "CLOSING"}
    /\ Commit(SocketOnClose(
                  SocketOnError([World EXCEPT !.sockets[s].readyState = "CLOSED"],
                                s), s),
              apiKey)
    /\ last' = IF services[sockets[s].owner].handlers
               THEN Event("onError", WebSocketConnectionError) ELSE Quiet
    /\ UNCHANGED <<initializing, pressed, finals, unmounted, emitted>>

\* ------------------------------------------------------------- App.tsx
\* RecordButton: disabled={!isInitialized || disabled}, disabled={!apiKey}.
RecordButtonEnabled == state.isInitialized /\ Truthy(apiKey)

\* handleRecordStart (App.tsx 23-27)
HandleRecordStart(w) ==
    IF state.isInitialized /\ Truthy(apiKey) /\ ~state.isRecording
    THEN StartRecordingCall(w, apiKey)
    ELSE w

\* handleRecordStop (App.tsx 30-34)
HandleRecordStop(w) ==
    IF state.isRecording THEN StopRecordingCall(w) ELSE w

\* The user presses the record button (mouse down / touch start).
Press ==
    /\ ~unmounted
    /\ ~pressed
    /\ RecordButtonEnabled
    /\ Commit(HandleRecordStart(World), apiKey)
    /\ pressed' = TRUE
    /\ last' = IF state.isRecording THEN Quiet
               ELSE Event("startRecording", StartRecordingResult(World, apiKey))
    /\ UNCHANGED <<initializing, finals, unmounted, emitted>>

\* The user releases the button (mouse up / touch end, or the pointer leaves
\* while held); a disabled button dispatches no event.
Release ==
    /\ ~unmounted
    /\ pressed
    /\ Commit(IF RecordButtonEnabled THEN HandleRecordStop(World) ELSE World,
              apiKey)
    /\ pressed' = FALSE
    /\ last' = IF RecordButtonEnabled /\ state.isRecording
               THEN Event("stopRecording", "recording") ELSE Quiet
    /\ UNCHANGED <<initializing, finals, unmounted, emitted>>

\* The pointer leaves the button while it is not held (App.tsx 88).
Leave ==
    /\ ~unmounted
    /\ ~pressed
    /\ RecordButtonEnabled
    /\ Commit(HandleRecordStop(World), apiKey)
    /\ last' = IF state.isRecording
               THEN Event("stopRecording", "recording") ELSE Quiet
    /\ UNCHANGED <<initializing, pressed, finals, unmounted, emitted>>

\* The Initialize Microphone button (App.tsx 65-78).
ClickInitialize ==
    /\ ~state.isInitialized
    /\ Truthy(apiKey)
    /\ Initialize

\* The Clear button (part_002 40-50): disabled={!hasContent}.
ClickClear ==
    /\ state.transcript # <<>> \/ state.interimTranscript # <<>>
    /\ ClearTranscript

\* ------------------------------------------------------- specifications
\* What the platform does while initialize() awaits, over the given
\* permission states, media-device support and getUserMedia outcomes.
Device(perms, supports, outcomes) ==
    \/ \E p \in perms, u \in supports : PermissionChecked(p, u)
    \/ \E o \in outcomes : GetUserMediaSettled(o)

\* What the network and the server do, over the given inbound frames and
\* MediaRecorder availability.
Network(recorderOks, frames) ==
    \/ \E s \in SocketIds, ok \in recorderOks : SocketOpen(s, ok)
    \/ \E s \in SocketIds, f \in frames : SocketMessage(s, f)
    \/ \E s \in SocketIds : SocketClose(s)
    \/ \E s \in SocketIds : SocketFail(s)

\* The hook driven through its action set by any caller.
Next ==
    \/ Initialize
    \/ StartRecording
    \/ StopRecording
    \/ ClearTranscript
    \/ \E k \in {"", "key"} : SetApiKey(k)
    \/ Device({"prompt"}, {"ok"}, {"ok", "NotAllowedError"})
    \/ Network({TRUE}, LeanFrames)

Spec == Init /\ [][Next]_vars

\* The hook driven by the buttons of App.tsx.
AppNext ==
    \/ ClickInitialize
    \/ Press
    \/ Release
    \/ Leave
    \/ ClickClear
    \/ \E k \in ApiKeys : SetApiKey(k)
    \/ Device(PermissionStates, SupportOutcomes, MediaOutcomes)
    \/ Network(BOOLEAN, Frames)

AppSpec == Init /\ [][AppNext]_vars

\* The hook's transcript actions called by any caller during one session.
ClipboardNext ==
    \/ Initialize
    \/ StartRecording
    \/ ClearTranscript
    \/ \E written \in BOOLEAN : CopyToClipboard(written)
    \/ \E written \in BOOLEAN : ClearThenCopy(written)
    \/ Device({"prompt"}, {"ok"}, {"ok"})
    \/ Network({TRUE}, LeanFrames)

ClipboardSpec == Init /\ [][ClipboardNext]_vars

\* One caller streaming audio: the recorder emits chunks while the session
\* starts, stops and fails.
Recorder ==
    \/ \E r \in RecorderIds, empty \in BOOLEAN : DataAvailable(r, empty)
    \/ \E rd \in [chunk : ChunkIds, service : ServiceIds, socket : SocketIds] :
          BufferRead(rd)

StreamNext ==
    \/ Initialize
    \/ StartRecording
    \/ StopRecording
    \/ Device({"prompt"}, {"ok"}, {"ok"})
    \/ Network({TRUE}, FaultFrames)
    \/ Recorder

StreamSpec == Init /\ [][StreamNext]_vars

\* Sessions started and stopped by any caller, without the audio chunks.
SessionNext ==
    \/ Initialize
    \/ StartRecording
    \/ StopRecording
    \/ Device({"prompt"}, {"ok"}, {"ok"})
    \/ Network({TRUE}, FaultFrames)

\* Sessions of a component that is eventually unmounted.
LifeNext ==
    \/ SessionNext
    \/ \E k \in ApiKeys : SetApiKey(k)
    \/ Unmount

LifeSpec == Init /\ [][LifeNext]_vars

\* One caller, one or two sessions, and a server that sends every kind of
\* frame.
DecodeNext ==
    \/ Initialize
    \/ StartRecording
    \/ Device({"prompt"}, {"ok"}, {"ok"})
    \/ Network({TRUE}, Frames)

DecodeSpec == Init /\ [][DecodeNext]_vars

\* A socket that is connecting or closing does not stay so for ever: the
\* browser completes or abandons the handshake, and finishes a close() it
\* was asked for.  An open socket may stay open for ever.
Settles(s) ==
    \/ /\ sockets[s].readyState = "CONNECTING"
       /\ SocketOpen(s, TRUE) \/ SocketFail(s)
    \/ /\ sockets[s].readyState = "CLOSING"
       /\ SocketClose(s) \/ SocketFail(s)

FairSpec ==
    /\ Init /\ [][SessionNext]_vars
    /\ \A s \in SocketIds : WF_vars(Settles(s))

\* ------------------------------------------------------------ properties
RECURSIVE JoinedBySpace(_)
JoinedBySpace(fs) ==
    IF fs = <<>> THEN <<>>
    ELSE IF Len(fs) = 1 THEN fs[1]
    ELSE JoinedBySpace(SubSeq(fs, 1, Len(fs) - 1)) \o Space \o fs[Len(fs)]

RunningRecorders == {r \in RecorderIds : recorders[r].state = "recording"}
ConnectedSockets == {s \in SocketIds : sockets[s].readyState \in {"CONNECTING", "OPEN"}}

\* C1: with no clearTranscript in between, the accumulated transcript is the
\* fragments of the final results delivered so far, in arrival order, joined
\* by exactly one space, whatever interim results came in between.
C1_TranscriptIsJoinedFinals == state.transcript = JoinedBySpace(finals)

C1_Witness ==
    /\ finals = <<<<"h", "i">>, <<"y", "o">>>>
    /\ state.transcript = <<"h", "i", " ", "y", "o">>
    /\ state.interimTranscript # <<>>

\* C2: the interim transcript is empty right after every final result and
\* right after every startRecording that passed its guards.
C2_InterimCleared ==
    \/ last = Event("onTranscript", "final")
    \/ last.op = "startRecording"
         /\ last.info \in {"connecting", "alreadyConnected", "threw"}
    => state.interimTranscript = <<>>

C2_Witness ==
    /\ last = Event("startRecording", "connecting")
    /\ state.transcript # <<>>
    /\ state.interimTranscript = <<>>

\* C3: at most one recorder is running and at most one socket is connecting
\* or open at any time.
C3_AtMostOneCaptureAndConnection ==
    /\ Cardinality(RunningRecorders) <= 1
    /\ Cardinality(ConnectedSockets) <= 1

\* C4: push-to-talk: while the record button is not held, recording is not
\* active.
C4_NotRecordingWhileReleased ==
    ~pressed => ~state.isRecording /\ RunningRecorders = {}

\* C5: startRecording with an empty API key (after a successful initialize)
\* opens no connection, leaves isRecording false and sets error to
\* "Deepgram API key is required.".
C5_NoKeyIsRejectedWithKeyMessage ==
    [][(last'.op = "startRecording" /\ apiKey = "" /\ state.isInitialized)
        => /\ sockets' = sockets
           /\ ~state.isRecording => ~state'.isRecording
           /\ state'.error = Some("Deepgram API key is required.")]_vars

\* C6: a failed initialize ends with error equal to the message of the error
\* audioService.initialize() rejected with, and with isInitialized false.
C6_FailedInitialize ==
    last.op = "initializeFailed"
    => state.error = Some(last.info) /\ ~state.isInitialized

C6_Witness ==
    /\ last.op = "initializeFailed"
    /\ state.error = Some("Microphone permission denied. Please allow microphone access in your system settings.")
    /\ ~state.isInitialized

\* C7: startRecording opens a connection only when isInitialized is true.
C7_ConnectOnlyWhenInitialized ==
    last = Event("startRecording", "connecting") => state.isInitialized

\* C8: a remote close received by a connected, recording session makes
\* isRecording and isConnected false and leaves error as it was (null stays
\* null).
C8_RemoteCloseIsNotAFault ==
    [][(last' = Event("onClose", "remote") /\ state.isRecording /\ state.isConnected)
        => /\ ~state'.isRecording
           /\ ~state'.isConnected
           /\ state'.error = state.error]_vars

C8_Witness ==
    /\ last = Event("onClose", "remote")
    /\ ~state.isRecording
    /\ ~state.isConnected
    /\ state.error = None
    /\ RunningRecorders # {}

\* C9: an onError event (a socket error, an Error frame, or the WebSocket
\* constructor throwing inside connect) sets error to that error's message,
\* makes isRecording and isConnected false and leaves transcript unchanged.
C9_OnErrorFaults ==
    [][(last'.op = "onError" \/ last' = Event("startRecording", "threw"))
        => /\ state'.error = Some(IF last'.op = "onError" THEN last'.info
                                  ELSE WebSocketSyntaxError)
           /\ ~state'.isRecording
           /\ ~state'.isConnected
           /\ state'.transcript = state.transcript]_vars

C9_Witness ==
    /\ last = Event("onError", "quota")
    /\ state.error = Some("quota")
    /\ state.transcript # <<>>
    /\ RunningRecorders # {}

\* C10 as stated: stopRecording while isRecording is false changes nothing but
\* isRecording and isConnected, which end false.
C10_StopWhenIdleChangesOnlyFlags ==
    [][(last'.op = "stopRecording" /\ ~state.isRecording)
        => state' = [state EXCEPT !.isRecording = FALSE, !.isConnected = FALSE]]_vars

\* C10 amended: stopRecording while isRecording is false leaves transcript,
\* error, isInitialized and permissionStatus unchanged, empties
\* interimTranscript, and ends with isRecording and isConnected false.
C10_StopWhenIdleClearsInterim ==
    [][(last'.op = "stopRecording" /\ ~state.isRecording)
        => state' = [state EXCEPT !.isRecording = FALSE, !.isConnected = FALSE,
                                  !.interimTranscript = <<>>]]_vars

C10_Witness ==
    /\ last = Event("stopRecording", "notRecording")
    /\ state.transcript # <<>>
    /\ state.error # None
    /\ state.isInitialized

\* C11: clearTranscript() followed by copyToClipboard() writes the empty
\* string to the clipboard: in separate event handlers, or one after the
\* other in the same handler.
C11_CopyAfterClearWritesEmpty ==
    [][(\/ last.op = "clearTranscript" /\ last' = Event("copyToClipboard", "written")
        \/ last' = Event("clearThenCopy", "written"))
        => clipboard' = <<>>]_vars

\* C13: startRecording() while already streaming (connect() takes its
\* already-connected branch) opens no connection, starts no capture and
\* leaves the session state unchanged.
C13_StartWhileStreamingIsNoOp ==
    [][(/\ last' = Event("startRecording", "alreadyConnected")
        /\ state.isRecording /\ state.isConnected)
        => /\ state' = state
           /\ sockets' = sockets
           /\ recorders' = recorders]_vars

\* C12: audio chunks are transmitted in the order the recorder emitted them:
\* a chunk emitted earlier is never sent after one emitted later.
C12_ChunksSentInEmissionOrder ==
    \A i, j \in DOMAIN sent : i < j => sent[i] < sent[j]

Released ==
    /\ RunningRecorders = {}
    /\ \A s \in SocketIds : sockets[s].readyState \notin {"CONNECTING", "OPEN", "CLOSING"}

\* C14: after stopRecording() the system eventually reaches a state in which
\* no recorder runs and no socket is connecting, open or closing (unless
\* startRecording is called again first).
C14_StopEventuallyReleases ==
    (last.op = "stopRecording") ~> (Released \/ last.op = "startRecording")

Calls(handler) == {i \in DOMAIN invoked : invoked[i].handler = handler}

\* C15: onClose is invoked exactly once per connection: a callback invokes it
\* once for the socket it closes (whether disconnect() or the remote side
\* started the close) and no callback invokes it otherwise.
C15_OnCloseOncePerConnection ==
    [][Cardinality({i \in DOMAIN invoked' : invoked'[i].handler = "onClose"})
       = Cardinality({s \in SocketIds :
            /\ sockets[s].readyState \in {"CONNECTING", "OPEN", "CLOSING"}
            /\ sockets'[s].readyState \notin {"CONNECTING", "OPEN", "CLOSING"}})]_vars

C15_Witness ==
    /\ Cardinality(Calls("onClose")) = 1
    /\ last = Quiet
    /\ wire = <<>>
    /\ state.transcript # <<>>
    /\ \A s \in SocketIds : sockets[s].readyState \notin {"CONNECTING", "OPEN", "CLOSING"}

\* C16: every connection attempt ends with exactly one of onOpen and onError:
\* the callback in which a connecting socket opens invokes onOpen once and
\* not onError; the callback in which a socket that never opened is closed,
\* and a connect() whose WebSocket constructor throws, invoke onError once and
\* not onOpen; no other callback invokes onOpen.
C16_OneOfOpenOrErrorPerAttempt ==
    [][LET opened == {s \in SocketIds :
                        /\ sockets[s].readyState = "CONNECTING"
                        /\ sockets'[s].readyState = "OPEN"}
           refused == {s \in SocketIds :
                        /\ \/ sockets[s].readyState = "CONNECTING"
                           \/ sockets[s].readyState = "CLOSING" /\ sockets[s].failed
                        /\ sockets'[s].readyState \notin {"CONNECTING", "OPEN", "CLOSING"}}
           onOpens == {i \in DOMAIN invoked' : invoked'[i].handler = "onOpen"}
           onErrors == {i \in DOMAIN invoked' : invoked'[i].handler = "onError"}
       IN /\ Cardinality(onOpens) = Cardinality(opened)
          /\ opened # {} => onErrors = {}
          /\ refused # {} \/ last' = Event("startRecording", "threw")
               => Cardinality(onErrors) = 1]_vars

C16_Witness ==
    /\ Cardinality(Calls("onOpen")) = 1
    /\ Calls("onError") = {}
    /\ state.isConnected
    /\ state.isRecording

\* C17: once the teardown ran, no recorder runs, no audio service holds a
\* device stream and no socket is connecting or open.
C17_TeardownReleasesEverything ==
    unmounted
    => /\ RunningRecorders = {}
       /\ \A a \in AudioIds : ~audios[a].mediaStream
       /\ ConnectedSockets = {}

\* C18: disconnect() (called by stopRecording and by the teardown on the
\* hook's service) leaves the service disconnected and holding no socket; on
\* an open socket it sends CloseStream once and then closes, on any other
\* socket it only closes; a second disconnect() in a row sends nothing and
\* changes neither the service nor a socket.
C18_DisconnectIsIdempotent ==
    [][(last'.op \in {"stopRecording", "unmount"} /\ deepgramServiceRef # 0)
        => LET d == deepgramServiceRef
               s == services[d].socket
           IN /\ ~services'[d].isConnected
              /\ services'[d].socket = 0
              /\ wire' = IF s = 0 THEN <<>>
                         ELSE IF sockets[s].readyState = "OPEN"
                         THEN <<SendControl(s, "CloseStream"), CloseSocket(s)>>
                         ELSE <<CloseSocket(s)>>
              /\ s # 0 => sockets'[s].readyState \notin {"CONNECTING", "OPEN"}
              /\ last.op = "stopRecording"
                   => wire' = <<>> /\ services' = services /\ sockets' = sockets]_vars

C18_Witness ==
    /\ last.op = "stopRecording"
    /\ \E s \in SocketIds :
          /\ wire = <<SendControl(s, "CloseStream"), CloseSocket(s)>>
          /\ sockets[s].readyState = "CLOSING"
    /\ services[deepgramServiceRef].socket = 0

\* C19: calling initialize() again while already initialized acquires no
\* additional device stream: getUserMedia is not granted another stream while
\* the hook is initialized and its audio service already holds one.
C19_InitializeTwiceAcquiresNoStream ==
    [][(/\ state.isInitialized
        /\ audioServiceRef # 0
        /\ audios[audioServiceRef].mediaStream)
        => last' # Event("initialize", "acquiredStream")]_vars

\* A frame that handleMessage converts to a TranscriptionResult and forwards.
Transcribes(f) == f.kind = "Results" /\ f.alts > 0 /\ f.transcript # <<>>

\* C20: a message event invokes onTranscript only for a Results frame with
\* at least one alternative and a non-empty transcript, and then once with
\* that transcript; an Error frame invokes onError once, with the frame's
\* message when it has one; every other frame, malformed ones included,
\* invokes no handler and changes neither the services, the sockets nor the
\* hook's state.
C20_FramesAreDecoded ==
    [][\A s \in SocketIds, f \in Frames :
          SocketMessage(s, f) =>
            /\ Calls("onTranscript")' # {} => Transcribes(f)
            /\ Transcribes(f)
                 => invoked' = <<Call("onTranscript", f.transcript, f.isFinal, "")>>
            /\ f.kind = "Error"
                 => /\ Len(invoked') = 1
                    /\ invoked'[1].handler = "onError"
                    /\ f.message # "" => invoked'[1].message = f.message
            /\ ~Transcribes(f) /\ f.kind # "Error"
                 => /\ invoked' = <<>>
                    /\ services' = services
                    /\ sockets' = sockets
                    /\ state' = state]_vars

C20_Witness ==
    /\ invoked = <<Call("onTranscript", <<"y", "o">>, FALSE, "")>>
    /\ state.interimTranscript = <<"y", "o">>
    /\ last = Quiet

\* C21: a final result that arrives after stopRecording() does not change the
\* accumulated transcript: when the callback that follows a stopRecording
\* call is a message event carrying a final result, transcript stays as it
\* was.
C21_FinalAfterStopIsDropped ==
    [][(last.op = "stopRecording" /\ last' = Event("onTranscript", "final"))
        => state'.transcript = state.transcript]_vars

\* C22: no state snapshot shows isConnected without isRecording, also when
\* starting the recorder fails inside onOpen.
C22_ConnectedImpliesRecording == state.isConnected => state.isRecording

\* A socket of a previous connection: disconnect() closed it, and its service
\* has started a new connection since.
PreviousSocket(s) ==
    /\ sockets[s].readyState = "CLOSING"
    /\ LET c == services[sockets[s].owner].socket
       IN c \notin {0, s} /\ sockets[c].readyState \in {"CONNECTING", "OPEN"}

\* C23: the late close or error of a previous connection's socket, arriving
\* after a new connection was started, neither clears the service's
\* connected flag nor changes isRecording, isConnected or error.
C23_LateEventsLeaveNewSession ==
    [][\A s \in SocketIds :
          (PreviousSocket(s) /\ (SocketClose(s) \/ SocketFail(s)))
          => /\ services'[sockets[s].owner].isConnected
                  = services[sockets[s].owner].isConnected
             /\ state'.isRecording = state.isRecording
             /\ state'.isConnected = state.isConnected
             /\ state'.error = state.error]_vars

\* C24: whenever the state shows isRecording = false and no connection
\* attempt is pending, no recorder is running.
C24_NotRecordingMeansNoCapture ==
    (~state.isRecording
     /\ \A s \in SocketIds : sockets[s].readyState # "CONNECTING")
    => RunningRecorders = {}

\* C25: a chunk is transmitted only on the socket that was the service's
\* open socket when the chunk was captured: when a pending read completes
\* and its chunk is transmitted, the socket it goes to is that socket.
C25_ChunkStaysOnItsConnection ==
    [][\A rd \in reads \ reads' :
          \A i \in DOMAIN wire' :
             (wire'[i].chunk = rd.chunk /\ sent' # sent)
             => wire'[i].socket = rd.socket]_vars

====
